---- MODULE Spec2Model ----
(***************************************************************************)
(* Git Publisher (obsidian-gitpublish, src/main.ts): the publish           *)
(* orchestrator (pending map, timers, publish queue) and the batch commit  *)
(* protocol, as a state machine.                                           *)
(*                                                                         *)
(* JavaScript runs one callback at a time.  An action of this module is    *)
(* one such run: from the event (or the resolution of an awaited I/O       *)
(* promise) up to the next await on I/O.  An async call chain that is      *)
(* suspended on an await is a record of `tasks`, its `pc` naming the       *)
(* await it is suspended on.                                               *)
(***************************************************************************)
EXTENDS Integers, Sequences, FiniteSets, TLC

\* Bound: the number of async call chains suspended at the same time.
MaxTasks == 2

\* The paths a markdown file of the vault can have, and their characters
PathA == "a.md"
PathB == "b.md"
PathDot == ".h.md"
PathUp == "n/../c.md"
AllPaths == {PathA, PathB, PathDot, PathUp}
NoPath == ""
Chars(p) ==
    CASE p = PathA -> <<"a", ".", "m", "d">>
      [] p = PathB -> <<"b", ".", "m", "d">>
      [] p = PathDot -> <<".", "h", ".", "m", "d">>
      [] p = PathUp -> <<"n", "/", ".", ".", "/", "c", ".", "m", "d">>
      [] OTHER -> <<>>

ValidRepo == "https://github.com/o/r"
Token == "ghp"
\* loadSettings defaults: maxFileSizeKB
DefaultMaxFileSizeKB == 1024
\* The size of a file: the bytes adapter.stat reports and the length of the
\* string vault.read returns.  A small file (the spec's 2KB document), a file
\* over the default limit both ways, and a file of two-byte characters that
\* is over the default limit in bytes only.
SmallSize == [bytes |-> 2 * 1024, length |-> 2 * 1024]
LargeSize == [bytes |-> 2048 * 1024, length |-> 2048 * 1024]
WideSize == [bytes |-> 1200 * 1024, length |-> 600 * 1024]

VARIABLES
    settings,             \* this.settings (the fields the orchestrator reads)
    vault,                \* app.vault: per path, whether it is a TFile, its content, its size
    published,            \* metadataCache: frontmatter.published === true, per path
    pendingChanges,       \* Map<string, boolean>, in insertion order
    publishQueue,         \* Set<string>, in insertion order
    publishingInProgress, \* the in-flight flag
    timers,               \* inactivityHandle, sessionHandle, sessionStart, debounceHandle
    remote,               \* the GitHub branch: whether it exists, and the files at its head
    tasks,                \* the suspended async call chains
    loaded,               \* FALSE once onunload has run (events and commands unregistered)
    lastLog,              \* the last observed batch outcome written by this.log
    world                 \* fixed per behaviour: what the environment can do (file
                          \* contents and sizes, failing requests) and what is observed

vars == <<settings, vault, published, pendingChanges, publishQueue,
          publishingInProgress, timers, remote, tasks, loaded, lastLog, world>>

Tasks == 1..MaxTasks

----
\* Map<string, boolean> and Set<string> of JavaScript (insertion ordered)

MapIndex(m, p) ==
    IF \E i \in 1..Len(m) : m[i].path = p
    THEN CHOOSE i \in 1..Len(m) : m[i].path = p
    ELSE 0

MapHas(m, p) == MapIndex(m, p) # 0

\* m.get(p), read for its truthiness (undefined is falsy)
MapGet(m, p) == IF MapHas(m, p) THEN m[MapIndex(m, p)].pen ELSE FALSE

MapSet(m, p, v) ==
    IF MapHas(m, p)
    THEN [m EXCEPT ![MapIndex(m, p)] = [path |-> p, pen |-> v]]
    ELSE Append(m, [path |-> p, pen |-> v])

MapDelete(m, p) == SelectSeq(m, LAMBDA e : e.path # p)

RECURSIVE MapSetAll(_, _, _)
MapSetAll(m, ps, v) ==
    IF ps = <<>> THEN m ELSE MapSetAll(MapSet(m, Head(ps), v), Tail(ps), v)

Range(s) == {s[i] : i \in 1..Len(s)}

\* a Set.add that drops the value
SetAddDropped(q, p) == q

SetAdd(q, p) == IF p \in Range(q) THEN q ELSE Append(q, p)

SetDeleteAll(q, ps) == SelectSeq(q, LAMBDA x : x \notin Range(ps))

----
\* pure helpers of the plugin

\* p.startsWith('.') and p.includes('..')
startsWithDot(p) == Len(Chars(p)) > 0 /\ Chars(p)[1] = "."

includesDotDot(p) ==
    \E i \in 1..(Len(Chars(p)) - 1) : Chars(p)[i] = "." /\ Chars(p)[i + 1] = "."

isSafePath(p) == ~startsWithDot(p) /\ ~includesDotDot(p)

\* isTooLarge: stat.size when `stat?.size` is a number (world.statSize), the
\* length of the content read otherwise
isTooLarge(p) ==
    IF world.statSize /\ vault[p].size.bytes # 0
    THEN vault[p].size.bytes > settings.maxFileSizeKB * 1024
    ELSE vault[p].size.length > settings.maxFileSizeKB * 1024

ensureGitHubConfig == settings.repoUri # "" /\ settings.githubToken # ""

\* parseRepo(): null for an empty (or, after sanitizeSettings, invalid) URL
parseRepo == IF settings.repoUri = "" THEN "null" ELSE "owner/repo"

----
\* sanitizeSettings

\* The texts a repository URL or a branch name can be set to, and their
\* characters
GitRepo == "https://github.com/o/r.git"
HttpRepo == "http://github.com/o/r"
OwnerOnly == "https://github.com/o"
RepoUris == {"", ValidRepo, GitRepo, HttpRepo, OwnerOnly}
MainBranch == "main"
DevBranch == "dev"
SpacedBranch == "my dev"
Branches == {"", MainBranch, DevBranch, SpacedBranch}
GitHubPrefix ==
    <<"h", "t", "t", "p", "s", ":", "/", "/",
      "g", "i", "t", "h", "u", "b", ".", "c", "o", "m", "/">>
Text(s) ==
    CASE s = ValidRepo -> GitHubPrefix \o <<"o", "/", "r">>
      [] s = GitRepo -> GitHubPrefix \o <<"o", "/", "r", ".", "g", "i", "t">>
      [] s = HttpRepo ->
            <<"h", "t", "t", "p", ":", "/", "/",
              "g", "i", "t", "h", "u", "b", ".", "c", "o", "m", "/", "o", "/", "r">>
      [] s = OwnerOnly -> GitHubPrefix \o <<"o">>
      [] s = MainBranch -> <<"m", "a", "i", "n">>
      [] s = DevBranch -> <<"d", "e", "v">>
      [] s = SpacedBranch -> <<"m", "y", " ", "d", "e", "v">>
      [] OTHER -> <<>>

\* the character classes [A-Za-z0-9], [\w.-] and [A-Za-z0-9._\/-]
AlphaNum ==
    {"a", "b", "c", "d", "e", "g", "h", "i", "m", "n", "o", "p", "r", "s", "t",
     "u", "v", "y"}
RepoChar(c) == c \in AlphaNum \cup {"_", ".", "-"}
BranchChar(c) == c \in AlphaNum \cup {".", "_", "/", "-"}

\* /^https:\/\/github\.com\/[\w.-]+\/[\w.-]+(?:\.git)?$/.test(u): the prefix,
\* a name, a slash and a name (the second name may take the suffix .git in)
RepoUriOk(u) ==
    LET c == Text(u)
        n == Len(GitHubPrefix)
    IN /\ Len(c) > n
       /\ SubSeq(c, 1, n) = GitHubPrefix
       /\ \E i \in (n + 2)..(Len(c) - 1) :
             /\ c[i] = "/"
             /\ \A j \in ((n + 1)..Len(c)) \ {i} : RepoChar(c[j])

\* /^[A-Za-z0-9._\/-]+$/.test(b)
BranchOk(b) ==
    /\ Len(Text(b)) > 0
    /\ \A i \in 1..Len(Text(b)) : BranchChar(Text(b)[i])

\* sanitizeSettings() on the settings st
sanitizeSettings(st) ==
    LET s1 == IF ~RepoUriOk(st.repoUri)
              THEN [st EXCEPT !.repoUri = "", !.autoPublishEnabled = FALSE]
              ELSE st
        s2 == IF ~BranchOk(s1.defaultBranch)
              THEN [s1 EXCEPT !.defaultBranch = MainBranch]
              ELSE s1
    IN IF s2.maxFileSizeKB < 50 THEN [s2 EXCEPT !.maxFileSizeKB = 50] ELSE s2

----
\* tasks

IdleTask ==
    [pc |-> "idle", origin |-> "none", file |-> NoPath, value |-> FALSE,
     pos |-> 0, paths |-> <<>>, idx |-> 0, baseSha |-> "none",
     blobs |-> <<>>, sha |-> 0, dirtiedSince |-> {}]

BatchPcs == {"resolve", "init", "resolve2", "blob", "tree", "commit", "ref", "save"}

InBatch(tk) == tk.pc \in BatchPcs

FreeTask(t) == tasks[t].pc = "idle" /\ \A u \in Tasks : u < t => tasks[u].pc # "idle"

IdleTimers ==
    [inactivityHandle |-> "null", inactivityFile |-> NoPath,
     sessionHandle |-> "null", sessionStart |-> FALSE, debounceHandle |-> "null"]

\* The state once the plugin is constructed and loaded with a valid
\* configuration: the vault's files carry one of the frontmatter flags pubs,
\* the repository is one of remotes, and w is the world.
InitWith(pubs, remotes, w) ==
    /\ settings = [repoUri |-> ValidRepo, githubToken |-> Token,
                   autoPublishEnabled |-> TRUE, defaultBranch |-> MainBranch,
                   maxFileSizeKB |-> DefaultMaxFileSizeKB]
    /\ world = w
    /\ vault = [p \in AllPaths |->
                  [isFile |-> p \in w.files, content |-> 1, size |-> SmallSize]]
    /\ published \in pubs
    /\ pendingChanges = <<>>
    /\ publishQueue = <<>>
    /\ publishingInProgress = FALSE
    /\ timers = IdleTimers
    /\ remote \in remotes
    /\ tasks = [t \in Tasks |-> IdleTask]
    /\ loaded = TRUE
    /\ lastLog = "none"

\* A world: the files of the vault, the contents and sizes a file can take,
\* whether adapter.stat hands back a size (statSize) or isTooLarge falls back
\* to the content's length, whether a request to GitHub can fail (replies),
\* and what is observed: the log messages lastLog records, and "dirty" to
\* record dirtiedSince.
World(contents, replies, observe) ==
    [files |-> {PathA, PathB}, contents |-> contents, sizes |-> {SmallSize},
     statSize |-> FALSE, replies |-> replies, observe |-> observe]

\* every request may succeed or fail / every request succeeds
Unreliable == BOOLEAN
Reliable == {TRUE}

AllPublished == {[p \in AllPaths |-> TRUE]}

\* a repository without the branch, one with an empty branch, one whose
\* branch holds both files, and one whose branch holds .gitkeep as well
NoBranch == [exists |-> FALSE, gitkeep |-> FALSE, files |-> [p \in AllPaths |-> 0]]
EmptyBranch == [exists |-> TRUE, gitkeep |-> FALSE, files |-> [p \in AllPaths |-> 0]]
PlainBranch == [exists |-> TRUE, gitkeep |-> FALSE, files |-> [p \in AllPaths |-> 1]]
FullBranch == [exists |-> TRUE, gitkeep |-> TRUE, files |-> [p \in AllPaths |-> 1]]

\* this.log(msg) of a batch outcome; "rejected" stands for the rejection
\* the runtime reports when an exception ends the call chain
Log(msg) == IF msg \in world.observe THEN msg ELSE lastLog

----
\* The timers

\* clearTimers(): all four fields become null
clearTimers == IdleTimers

\* resetSessionTimer(): the handle of a new timeout.  "armed" is the timeout
\* set while no handle was held, "rearmed" one that replaces a handle, its
\* deadline counting from the later call.
resetSessionTimer == IF timers.sessionHandle = "null" THEN "armed" ELSE "rearmed"

\* the session timeout is pending
SessionPending == timers.sessionHandle \in {"armed", "rearmed"}

\* an editor activity that sets the session timeout anew each time
handleEditorActivityResettingSession(f) ==
    [inactivityHandle |-> "armed", inactivityFile |-> f,
     sessionHandle |-> resetSessionTimer,
     sessionStart |-> TRUE, debounceHandle |-> "armed"]

\* handleEditorActivity(file), past its autoPublishEnabled guard
handleEditorActivity(f) ==
    [inactivityHandle |-> "armed", inactivityFile |-> f,
     sessionHandle |-> IF timers.sessionStart THEN timers.sessionHandle
                       ELSE resetSessionTimer,
     sessionStart |-> TRUE, debounceHandle |-> "armed"]

----
\* publishAllPending's loop over pendingChanges.entries()

\* The first entry at or after index `from` that the loop hands to
\* queueFileForPublish and that passes isSafePath (an unsafe path returns at
\* once and the loop goes on); 0 when the entries are exhausted.
RECURSIVE NextCandidate(_)
NextCandidate(from) ==
    IF from > Len(pendingChanges) THEN 0
    ELSE IF /\ pendingChanges[from].pen
            /\ vault[pendingChanges[from].path].isFile
            /\ isSafePath(pendingChanges[from].path)
         THEN from
         ELSE NextCandidate(from + 1)

\* The task suspended on `await this.isTooLarge(file)` in queueFileForPublish
SizeTask(origin, f, pos) ==
    [IdleTask EXCEPT !.pc = "size", !.origin = origin, !.file = f, !.pos = pos]

\* The caller's continuation once queueFileForPublish(file) has returned:
\* publishAllPending goes on with the next entry, the others are done.
Resume(tk) ==
    IF tk.origin \in {"session", "cmdAll"}
    THEN LET j == NextCandidate(tk.pos + 1) IN
         IF j = 0 THEN IdleTask
         ELSE SizeTask(tk.origin, pendingChanges[j].path, j)
    ELSE IdleTask

\* queueFileForPublish returns in task t; the session callback ends with clearTimers()
Return(t) ==
    /\ tasks' = [tasks EXCEPT ![t] = Resume(tasks[t])]
    /\ timers' = IF tasks[t].origin = "session" /\ Resume(tasks[t]).pc = "idle"
                 THEN clearTimers ELSE timers

\* publishBatch's loop in task tk is past path p: p is not in the snapshot,
\* or its content has been read
ContentRead(tk, p) ==
    \/ tk.pc \in {"tree", "commit", "ref", "save"}
    \/ \A i \in 1..Len(tk.paths) : tk.paths[i] = p => i < tk.idx

\* A dirty mark of path p, noted by the runs that have taken their snapshot
\* and are past p
NoteDirty(tks, p) ==
    [u \in Tasks |-> IF /\ "dirty" \in world.observe
                        /\ InBatch(tks[u])
                        /\ ContentRead(tks[u], p)
                     THEN [tks[u] EXCEPT !.dirtiedSince = @ \cup {p}]
                     ELSE tks[u]]

\* The branch head moved: a commit id resolved earlier is no longer the head
HeadMoved(tk) == IF tk.baseSha = "head" THEN [tk EXCEPT !.baseSha = "stale"] ELSE tk

----
\* Events and commands (registered while the plugin is loaded)

\* workspace 'editor-change' with active file f
EditorChange(f) ==
    /\ loaded
    /\ vault[f].isFile
    /\ settings.autoPublishEnabled
    /\ timers' = handleEditorActivity(f)
    /\ UNCHANGED <<settings, vault, published, pendingChanges, publishQueue,
                   publishingInProgress, remote, tasks, loaded, lastLog, world>>

\* vault 'modify' of file f (the file's new content is on disk)
VaultModify(f) ==
    /\ loaded
    /\ vault[f].isFile
    /\ \E c \in world.contents, s \in world.sizes :
          vault' = [vault EXCEPT ![f].content = c, ![f].size = s]
    /\ IF published[f]
       THEN /\ pendingChanges' = MapSet(pendingChanges, f, TRUE)
            /\ tasks' = NoteDirty(tasks, f)
       ELSE UNCHANGED <<pendingChanges, tasks>>
    /\ UNCHANGED <<settings, published, publishQueue, publishingInProgress,
                   timers, remote, loaded, lastLog, world>>

\* the user deletes file f from the vault
DeleteFile(f) ==
    /\ loaded
    /\ vault[f].isFile
    /\ vault' = [vault EXCEPT ![f].isFile = FALSE]
    /\ UNCHANGED <<settings, published, pendingChanges, publishQueue,
                   publishingInProgress, timers, remote, tasks, loaded, lastLog, world>>

\* the inactivity timeout fires: publishFileIfPending(file)
InactivityExpire ==
    /\ timers.inactivityHandle = "armed"
    /\ timers' = [timers EXCEPT !.inactivityHandle = "fired", !.inactivityFile = NoPath]
    /\ LET f == timers.inactivityFile IN
       IF /\ settings.autoPublishEnabled
          /\ published[f]
          /\ MapGet(pendingChanges, f)
          /\ isSafePath(f)
       THEN \E t \in Tasks :
              /\ FreeTask(t)
              /\ tasks' = [tasks EXCEPT ![t] = SizeTask("inact", f, 0)]
       ELSE UNCHANGED tasks
    /\ UNCHANGED <<settings, vault, published, pendingChanges, publishQueue,
                   publishingInProgress, remote, loaded, lastLog, world>>

\* publishAllPending() is called by `origin`; `done` are the timers if the
\* call returns at once, `busy` the timers if it suspends
publishAllPending(origin, done, busy) ==
    IF settings.autoPublishEnabled /\ NextCandidate(1) # 0
    THEN /\ \E t \in Tasks :
              /\ FreeTask(t)
              /\ tasks' = [tasks EXCEPT ![t] =
                     SizeTask(origin, pendingChanges[NextCandidate(1)].path,
                              NextCandidate(1))]
         /\ timers' = busy
    ELSE /\ timers' = done
         /\ UNCHANGED tasks

\* the session timeout fires: publishAllPending(), then clearTimers()
SessionExpire ==
    /\ SessionPending
    /\ publishAllPending("session", clearTimers,
                         [timers EXCEPT !.sessionHandle = "fired"])
    /\ UNCHANGED <<settings, vault, published, pendingChanges, publishQueue,
                   publishingInProgress, remote, loaded, lastLog, world>>

\* the debounce timeout fires: its callback is empty
DebounceExpire ==
    /\ timers.debounceHandle = "armed"
    /\ timers' = [timers EXCEPT !.debounceHandle = "fired"]
    /\ UNCHANGED <<settings, vault, published, pendingChanges, publishQueue,
                   publishingInProgress, remote, tasks, loaded, lastLog, world>>

\* command gitpub-publish-current / the side panel's Publish button
CmdPublishCurrent(f) ==
    /\ loaded
    /\ vault[f].isFile
    /\ isSafePath(f)
    /\ \E t \in Tasks :
          /\ FreeTask(t)
          /\ tasks' = [tasks EXCEPT ![t] = SizeTask("cmdOne", f, 0)]
    /\ UNCHANGED <<settings, vault, published, pendingChanges, publishQueue,
                   publishingInProgress, timers, remote, loaded, lastLog, world>>

\* command gitpub-publish-all / the side panel's "Alle publishen" button
CmdPublishAll ==
    /\ loaded
    /\ settings.autoPublishEnabled /\ NextCandidate(1) # 0
    /\ publishAllPending("cmdAll", timers, timers)
    /\ UNCHANGED <<settings, vault, published, pendingChanges, publishQueue,
                   publishingInProgress, remote, loaded, lastLog, world>>

\* togglePublished(file) / the status bar toggle: setPublished(file, value)
\* is called with the negation of the flag shown
SetPublishedCall(f, v) ==
    /\ loaded
    /\ vault[f].isFile
    /\ v = ~published[f]
    /\ \E t \in Tasks :
          /\ FreeTask(t)
          /\ tasks' = [tasks EXCEPT ![t] =
                 [IdleTask EXCEPT !.pc = "fm", !.origin = "setPub",
                                  !.file = f, !.value = v]]
    /\ UNCHANGED <<settings, vault, published, pendingChanges, publishQueue,
                   publishingInProgress, timers, remote, loaded, lastLog, world>>

\* settings tab, Auto Publish toggle: onChange(v)
SetAutoPublish(v) ==
    /\ loaded
    /\ settings.autoPublishEnabled # v
    /\ settings' = [settings EXCEPT !.autoPublishEnabled = v]
    /\ UNCHANGED <<vault, published, pendingChanges, publishQueue,
                   publishingInProgress, timers, remote, tasks, loaded, lastLog, world>>

\* settings tab, GitHub Token: onChange(v)
SetToken(v) ==
    /\ loaded
    /\ settings.githubToken # v
    /\ settings' = [settings EXCEPT !.githubToken = v]
    /\ UNCHANGED <<vault, published, pendingChanges, publishQueue,
                   publishingInProgress, timers, remote, tasks, loaded, lastLog, world>>

\* settings tab, GitHub Repo URL: onChange(v), v already trimmed
SetRepoUri(v) ==
    /\ loaded
    /\ settings' = sanitizeSettings([settings EXCEPT !.repoUri = v])
    /\ settings' # settings
    /\ UNCHANGED <<vault, published, pendingChanges, publishQueue,
                   publishingInProgress, timers, remote, tasks, loaded, lastLog, world>>

\* settings tab, Branch: onChange(v), v already trimmed; an empty text is
\* not assigned
SetBranch(v) ==
    /\ loaded
    /\ settings' = sanitizeSettings(IF v # "" THEN [settings EXCEPT !.defaultBranch = v]
                                    ELSE settings)
    /\ settings' # settings
    /\ UNCHANGED <<vault, published, pendingChanges, publishQueue,
                   publishingInProgress, timers, remote, tasks, loaded, lastLog, world>>

\* onunload(): clearTimers(); Obsidian drops the registered events and commands
Unload ==
    /\ loaded
    /\ loaded' = FALSE
    /\ timers' = clearTimers
    /\ UNCHANGED <<settings, vault, published, pendingChanges, publishQueue,
                   publishingInProgress, remote, tasks, lastLog, world>>

----
\* queueFileForPublish / processPublishQueue

\* processPublishQueue without its publishingInProgress guard
CanStartRunUnguarded == ensureGitHubConfig

\* processPublishQueue's guards
CanStartRun == ~publishingInProgress /\ ensureGitHubConfig

\* `await this.isTooLarge(file)` resolves in task t: the rest of
\* queueFileForPublish, and processPublishQueue up to publishBatch's first request
QueueFileForPublish(t) ==
    LET tk == tasks[t]
        f  == tk.file
        q2 == SetAdd(publishQueue, f)
    IN
    /\ tk.pc = "size"
    /\ IF ~vault[f].isFile
       THEN \* vault.read rejects: the exception ends the call chain
            /\ tasks' = [tasks EXCEPT ![t] = IdleTask]
            /\ UNCHANGED <<publishQueue, publishingInProgress, timers, lastLog>>
       ELSE IF isTooLarge(f)
       THEN /\ Return(t)
            /\ UNCHANGED <<publishQueue, publishingInProgress, lastLog>>
       ELSE IF ~CanStartRun
       THEN /\ publishQueue' = q2
            /\ Return(t)
            /\ UNCHANGED <<publishingInProgress, lastLog>>
       ELSE IF q2 = <<>>
       THEN \* paths.length === 0: the flag is set and released again
            /\ publishQueue' = q2
            /\ Return(t)
            /\ UNCHANGED <<publishingInProgress, lastLog>>
       ELSE IF parseRepo = "null"
       THEN \* batch_abort_parse, then the queue is pruned and the flag released
            /\ publishQueue' = SetDeleteAll(q2, q2)
            /\ lastLog' = Log("batch_abort_parse")
            /\ Return(t)
            /\ UNCHANGED publishingInProgress
       ELSE /\ publishQueue' = q2
            /\ publishingInProgress' = TRUE
            /\ tasks' = [tasks EXCEPT ![t] =
                   [tk EXCEPT !.pc = "resolve", !.paths = q2, !.idx = 1]]
            /\ UNCHANGED <<timers, lastLog>>
    /\ UNCHANGED <<settings, vault, published, pendingChanges, remote, loaded, world>>

\* a return of publishBatch after which the whole queue is emptied
AbortRunClearingQueue(t, msg) ==
    /\ lastLog' = Log(msg)
    /\ publishQueue' = <<>>
    /\ publishingInProgress' = FALSE
    /\ Return(t)

\* a return of publishBatch after which the flag stays set
AbortRunKeepingFlag(t, msg) ==
    /\ lastLog' = Log(msg)
    /\ publishQueue' = SetDeleteAll(publishQueue, tasks[t].paths)
    /\ publishingInProgress' = publishingInProgress
    /\ Return(t)

\* publishBatch returns without an exception after logging msg:
\* processPublishQueue prunes the snapshot from the queue, releases the flag
AbortRun(t, msg) ==
    /\ lastLog' = Log(msg)
    /\ publishQueue' = SetDeleteAll(publishQueue, tasks[t].paths)
    /\ publishingInProgress' = FALSE
    /\ Return(t)

----
\* publishBatch

\* ensureBranchExists: the GET of the branch ref answers
ResolveHead(t) ==
    /\ tasks[t].pc = "resolve"
    /\ \E ok \in world.replies :
          tasks' = [tasks EXCEPT ![t] =
              IF ok /\ remote.exists
              THEN [@ EXCEPT !.pc = "blob", !.baseSha = "head"]
              ELSE [@ EXCEPT !.pc = "init"]]
    /\ UNCHANGED <<settings, vault, published, pendingChanges, publishQueue,
                   publishingInProgress, timers, remote, loaded, lastLog, world>>

\* initializeBranch: the PUT of .gitkeep answers (it is refused when the
\* branch already holds a .gitkeep, the request carrying no sha)
InitBranch(t) ==
    /\ tasks[t].pc = "init"
    /\ \E ok \in world.replies :
          IF ok /\ ~remote.gitkeep
          THEN /\ remote' = [remote EXCEPT !.exists = TRUE, !.gitkeep = TRUE]
               /\ tasks' = [u \in Tasks |->
                      IF u = t THEN [tasks[t] EXCEPT !.pc = "resolve2"]
                      ELSE HeadMoved(tasks[u])]
               /\ UNCHANGED <<publishQueue, publishingInProgress, timers, lastLog>>
          ELSE /\ AbortRun(t, "batch_abort_branch")
               /\ UNCHANGED remote
    /\ UNCHANGED <<settings, vault, published, pendingChanges, loaded, world>>

\* ensureBranchExists: the second GET of the branch ref answers
ReResolve(t) ==
    /\ tasks[t].pc = "resolve2"
    /\ \E ok \in world.replies :
          IF ok /\ remote.exists
          THEN /\ tasks' = [tasks EXCEPT ![t] =
                      [@ EXCEPT !.pc = "blob", !.baseSha = "head"]]
               /\ UNCHANGED <<publishQueue, publishingInProgress, timers, lastLog>>
          ELSE AbortRun(t, "batch_abort_branch")
    /\ UNCHANGED <<settings, vault, published, pendingChanges, remote, loaded, world>>

\* the loop over paths has handled paths[idx], leaving blobs2
NextPath(t, blobs2) ==
    IF tasks[t].idx < Len(tasks[t].paths)
    THEN /\ tasks' = [tasks EXCEPT ![t] = [@ EXCEPT !.idx = @ + 1, !.blobs = blobs2]]
         /\ UNCHANGED <<publishQueue, publishingInProgress, timers, lastLog>>
    ELSE IF blobs2 = <<>>
    THEN AbortRun(t, "batch_no_blobs")
    ELSE /\ tasks' = [tasks EXCEPT ![t] = [@ EXCEPT !.pc = "tree", !.blobs = blobs2]]
         /\ UNCHANGED <<publishQueue, publishingInProgress, timers, lastLog>>

\* a round of the loop that uploads the content the branch already holds
\* instead of the content read from the vault
UploadBlobOfOldContent(t) ==
    /\ tasks[t].pc = "blob"
    /\ \E r \in {"ok"} \cup (IF FALSE \in world.replies THEN {"fail", "throw"} ELSE {}) :
          IF ~vault[tasks[t].paths[tasks[t].idx]].isFile
          THEN NextPath(t, tasks[t].blobs)
          ELSE IF r = "throw"
          THEN /\ publishingInProgress' = FALSE
               /\ tasks' = [tasks EXCEPT ![t] = IdleTask]
               /\ lastLog' = Log("rejected")
               /\ UNCHANGED <<publishQueue, timers>>
          ELSE IF r = "ok"
          THEN NextPath(t, Append(tasks[t].blobs,
                                  [path |-> tasks[t].paths[tasks[t].idx],
                                   sha |-> remote.files[tasks[t].paths[tasks[t].idx]]]))
          ELSE NextPath(t, tasks[t].blobs)
    /\ UNCHANGED <<settings, vault, published, pendingChanges, remote, loaded, world>>

\* one round of the loop over paths: the file is looked up and read, and the
\* POST of its blob answers (r = "throw": vault.read rejects)
UploadBlob(t) ==
    LET tk == tasks[t]
        p  == tk.paths[tk.idx]
    IN
    /\ tk.pc = "blob"
    /\ \E r \in {"ok"} \cup (IF FALSE \in world.replies THEN {"fail", "throw"} ELSE {}) :
          IF ~vault[p].isFile
          THEN NextPath(t, tk.blobs)
          ELSE IF r = "throw"
          THEN \* the exception passes processPublishQueue's finally: the flag
               \* is released, the queue is not pruned, the call chain ends
               /\ publishingInProgress' = FALSE
               /\ tasks' = [tasks EXCEPT ![t] = IdleTask]
               /\ lastLog' = Log("rejected")
               /\ UNCHANGED <<publishQueue, timers>>
          ELSE IF r = "ok"
          THEN NextPath(t, Append(tk.blobs, [path |-> p, sha |-> vault[p].content]))
          ELSE NextPath(t, tk.blobs)
    /\ UNCHANGED <<settings, vault, published, pendingChanges, remote, loaded, world>>

\* the POST of the tree answers
BuildTree(t) ==
    /\ tasks[t].pc = "tree"
    /\ \E ok \in world.replies :
          IF ok
          THEN /\ tasks' = [tasks EXCEPT ![t] = [@ EXCEPT !.pc = "commit"]]
               /\ UNCHANGED <<publishQueue, publishingInProgress, timers, lastLog>>
          ELSE AbortRun(t, "tree_fail")
    /\ UNCHANGED <<settings, vault, published, pendingChanges, remote, loaded, world>>

\* a commit creation that also moves the branch to the new commit
CreateCommitMovingRef(t) ==
    /\ tasks[t].pc = "commit"
    /\ \E ok \in world.replies :
          IF ok
          THEN /\ tasks' = [tasks EXCEPT ![t] = [@ EXCEPT !.pc = "ref"]]
               /\ remote' = [remote EXCEPT !.files = [p \in AllPaths |->
                      IF \E i \in 1..Len(tasks[t].blobs) : tasks[t].blobs[i].path = p
                      THEN 2 ELSE @[p]]]
               /\ UNCHANGED <<publishQueue, publishingInProgress, timers, lastLog>>
          ELSE /\ AbortRun(t, "commit_fail")
               /\ UNCHANGED remote
    /\ UNCHANGED <<settings, vault, published, pendingChanges, loaded, world>>

\* the POST of the commit answers
CreateCommit(t) ==
    /\ tasks[t].pc = "commit"
    /\ \E ok \in world.replies :
          IF ok
          THEN /\ tasks' = [tasks EXCEPT ![t] = [@ EXCEPT !.pc = "ref"]]
               /\ UNCHANGED <<publishQueue, publishingInProgress, timers, lastLog>>
          ELSE AbortRun(t, "commit_fail")
    /\ UNCHANGED <<settings, vault, published, pendingChanges, remote, loaded, world>>

\* the files at the branch head once the commit (base tree plus blobs) is the head
Overlay(files, blobs) ==
    [p \in AllPaths |->
        IF \E i \in 1..Len(blobs) : blobs[i].path = p
        THEN blobs[CHOOSE i \in 1..Len(blobs) : blobs[i].path = p].sha
        ELSE files[p]]

\* a wildcard clear: every entry of the map, and every path of the snapshot
MarkCleanAll(m, paths) ==
    MapSetAll([i \in 1..Len(m) |-> [path |-> m[i].path, pen |-> FALSE]], paths, FALSE)

\* for(const p of paths) this.pendingChanges.set(p,false)
MarkClean(m, paths) == MapSetAll(m, paths, FALSE)

\* a ref update that marks the snapshot clean whatever the answer
UpdateRefClearingAlways(t) ==
    LET tk == tasks[t] IN
    /\ tk.pc = "ref"
    /\ pendingChanges' = MapSetAll(pendingChanges, tk.paths, FALSE)
    /\ \E ok \in world.replies :
          IF ok /\ remote.exists /\ tk.baseSha = "head"
          THEN /\ remote' = [remote EXCEPT !.files =
                      [p \in AllPaths |->
                          IF \E i \in 1..Len(tk.blobs) : tk.blobs[i].path = p
                          THEN tk.blobs[CHOOSE i \in 1..Len(tk.blobs) :
                                            tk.blobs[i].path = p].sha
                          ELSE @[p]]]
               /\ tasks' = [u \in Tasks |->
                      IF u = t THEN [tk EXCEPT !.pc = "save"]
                      ELSE HeadMoved(tasks[u])]
               /\ UNCHANGED <<publishQueue, publishingInProgress, timers, lastLog>>
          ELSE /\ AbortRun(t, "ref_fail")
               /\ UNCHANGED remote
    /\ UNCHANGED <<settings, vault, published, loaded, world>>

\* the PATCH of the ref (force: false) answers: it is accepted only when the
\* commit's parent is still the head.  On success every path of the snapshot
\* is set to false, and the run awaits saveSettings.
UpdateRef(t) ==
    LET tk == tasks[t] IN
    /\ tk.pc = "ref"
    /\ \E ok \in world.replies :
          IF ok /\ remote.exists /\ tk.baseSha = "head"
          THEN /\ remote' = [remote EXCEPT !.files = Overlay(remote.files, tk.blobs)]
               /\ pendingChanges' = MarkClean(pendingChanges, tk.paths)
               /\ tasks' = [u \in Tasks |->
                      IF u = t THEN [tk EXCEPT !.pc = "save"]
                      ELSE HeadMoved(tasks[u])]
               /\ UNCHANGED <<publishQueue, publishingInProgress, timers, lastLog>>
          ELSE /\ AbortRun(t, "ref_fail")
               /\ UNCHANGED <<remote, pendingChanges>>
    /\ UNCHANGED <<settings, vault, published, loaded, world>>

\* saveSettings resolves: batch_ok is logged, publishBatch returns
SaveDone(t) ==
    /\ tasks[t].pc = "save"
    /\ AbortRun(t, "batch_ok")
    /\ UNCHANGED <<settings, vault, published, pendingChanges, remote, loaded, world>>

----
\* setPublished / deleteFileFromRepo

\* processFrontMatter resolves: the flag is written; value true marks the
\* path dirty, value false starts deleteFileFromRepo (GET of the contents sha)
FrontMatterDone(t) ==
    LET tk == tasks[t]
        f  == tk.file
    IN
    /\ tk.pc = "fm"
    /\ IF ~vault[f].isFile
       THEN \* processFrontMatter rejects
            /\ tasks' = [tasks EXCEPT ![t] = IdleTask]
            /\ UNCHANGED <<published, pendingChanges>>
       ELSE /\ published' = [published EXCEPT ![f] = tk.value]
            /\ IF tk.value
               THEN /\ pendingChanges' = MapSet(pendingChanges, f, TRUE)
                    /\ tasks' = NoteDirty([tasks EXCEPT ![t] = IdleTask], f)
               ELSE /\ tasks' = [tasks EXCEPT ![t] =
                           IF parseRepo = "null" THEN IdleTask
                           ELSE [tk EXCEPT !.pc = "delGet"]]
                    /\ UNCHANGED pendingChanges
    /\ UNCHANGED <<settings, vault, publishQueue, publishingInProgress, timers,
                   remote, loaded, lastLog, world>>

\* fetchContentsSha answers: no sha (absent, or the request failed) ends the
\* call; otherwise the DELETE is sent with that sha
DeleteLookup(t) ==
    LET tk == tasks[t] IN
    /\ tk.pc = "delGet"
    /\ \E ok \in world.replies :
          tasks' = [tasks EXCEPT ![t] =
              IF ok /\ remote.exists /\ remote.files[tk.file] # 0
              THEN [tk EXCEPT !.pc = "delReq", !.sha = remote.files[tk.file]]
              ELSE IdleTask]
    /\ UNCHANGED <<settings, vault, published, pendingChanges, publishQueue,
                   publishingInProgress, timers, remote, loaded, lastLog, world>>

\* an entry of pendingChanges is deleted: a live iterator over its entries
\* that has passed the entry moves back by one
IteratorAfterDelete(tk, i) ==
    IF tk.origin \in {"session", "cmdAll"} /\ i # 0 /\ i <= tk.pos
    THEN [tk EXCEPT !.pos = @ - 1] ELSE tk

\* a delete that leaves the entry of pendingChanges in place
DeleteDoneKeepingEntry(t) ==
    /\ tasks[t].pc = "delReq"
    /\ \E ok \in world.replies :
          IF ok /\ remote.exists /\ remote.files[tasks[t].file] = tasks[t].sha
          THEN /\ remote' = [remote EXCEPT !.files[tasks[t].file] = 0]
               /\ tasks' = [u \in Tasks |->
                      IF u = t THEN IdleTask ELSE HeadMoved(tasks[u])]
          ELSE /\ tasks' = [tasks EXCEPT ![t] = IdleTask]
               /\ UNCHANGED remote
    /\ UNCHANGED <<settings, vault, published, pendingChanges, publishQueue,
                   publishingInProgress, timers, loaded, lastLog, world>>

\* the DELETE answers: it is accepted only for the sha the branch holds
DeleteDone(t) ==
    LET tk == tasks[t]
        f  == tk.file
    IN
    /\ tk.pc = "delReq"
    /\ \E ok \in world.replies :
          IF ok /\ remote.exists /\ remote.files[f] = tk.sha
          THEN /\ remote' = [remote EXCEPT !.files[f] = 0]
               /\ pendingChanges' = MapDelete(pendingChanges, f)
               /\ tasks' = [u \in Tasks |->
                      IF u = t THEN IdleTask
                      ELSE [IteratorAfterDelete(HeadMoved(tasks[u]),
                                                MapIndex(pendingChanges, f))
                            EXCEPT !.dirtiedSince = @ \ {f}]]
          ELSE /\ tasks' = [tasks EXCEPT ![t] = IdleTask]
               /\ UNCHANGED <<remote, pendingChanges>>
    /\ UNCHANGED <<settings, vault, published, publishQueue, publishingInProgress,
                   timers, loaded, lastLog, world>>

----
\* scanPublishedFiles

\* app.vault.getMarkdownFiles(): the files of the vault, in a fixed order
getMarkdownFiles ==
    SelectSeq(<<PathA, PathB, PathDot, PathUp>>, LAMBDA p : vault[p].isFile)

\* toBase64(content), the content field GitHub answers with (base64 broken
\* into lines), and .replace(/\n/g,'')
toBase64(c) == [data |-> c, newlines |-> FALSE]
WireContent(c) == [data |-> c, newlines |-> TRUE]
StripNewlines(w) == [w EXCEPT !.newlines = FALSE]

\* the loop over files: the first file at or after index `from` whose
\* frontmatter has published === true; 0 when the files are exhausted
RECURSIVE NextPublished(_, _)
NextPublished(files, from) ==
    IF from > Len(files) THEN 0
    ELSE IF published[files[from]] THEN from
    ELSE NextPublished(files, from + 1)

\* the scan suspended on the GET of the contents of files[j]; done when j = 0
ScanTask(files, j) ==
    IF j = 0 THEN IdleTask
    ELSE [IdleTask EXCEPT !.pc = "scanGet", !.origin = "scan", !.paths = files,
                          !.idx = j, !.file = files[j]]

\* what the scan makes of path p when both of its requests succeed
ScanVerdict(p) ==
    IF ~remote.exists \/ remote.files[p] = 0 THEN "missing"
    ELSE IF toBase64(vault[p].content) # StripNewlines(WireContent(remote.files[p]))
    THEN "outOfSync"
    ELSE "clean"

\* command gitpub-rescan: scanPublishedFiles up to its first GET
CmdRescan ==
    /\ loaded
    /\ parseRepo # "null"
    /\ NextPublished(getMarkdownFiles, 1) # 0
    /\ \E t \in Tasks :
          /\ FreeTask(t)
          /\ tasks' = [tasks EXCEPT ![t] =
                 ScanTask(getMarkdownFiles, NextPublished(getMarkdownFiles, 1))]
    /\ UNCHANGED <<settings, vault, published, pendingChanges, publishQueue,
                   publishingInProgress, timers, remote, loaded, lastLog, world>>

\* the GET of the contents answers: no content marks the path dirty
\* (missing) and the loop goes on; otherwise the file is read
ScanLookup(t) ==
    LET tk == tasks[t] IN
    /\ tk.pc = "scanGet"
    /\ \E ok \in world.replies :
          IF ok /\ remote.exists /\ remote.files[tk.file] # 0
          THEN /\ tasks' = [tasks EXCEPT ![t] =
                      [tk EXCEPT !.pc = "scanRead", !.sha = remote.files[tk.file]]]
               /\ UNCHANGED pendingChanges
          ELSE /\ pendingChanges' = MapSet(pendingChanges, tk.file, TRUE)
               /\ tasks' = NoteDirty(
                      [tasks EXCEPT ![t] =
                          ScanTask(tk.paths, NextPublished(tk.paths, tk.idx + 1))],
                      tk.file)
    /\ UNCHANGED <<settings, vault, published, publishQueue, publishingInProgress,
                   timers, remote, loaded, lastLog, world>>

\* a comparison that marks the path dirty whatever the contents are
ScanCompareAlwaysDirty(t) ==
    LET tk == tasks[t]
        rest == [tasks EXCEPT ![t] =
                    ScanTask(tk.paths, NextPublished(tk.paths, tk.idx + 1))]
    IN
    /\ tk.pc = "scanRead"
    /\ IF ~vault[tk.file].isFile
       THEN /\ tasks' = [tasks EXCEPT ![t] = IdleTask]
            /\ UNCHANGED pendingChanges
       ELSE /\ pendingChanges' = MapSet(pendingChanges, tk.file, TRUE)
            /\ tasks' = NoteDirty(rest, tk.file)
    /\ UNCHANGED <<settings, vault, published, publishQueue, publishingInProgress,
                   timers, remote, loaded, lastLog, world>>

\* vault.read resolves: the path is marked dirty if the contents differ and
\* clean if they are the same, and the loop goes on
ScanCompare(t) ==
    LET tk == tasks[t]
        same == toBase64(vault[tk.file].content) = StripNewlines(WireContent(tk.sha))
        rest == [tasks EXCEPT ![t] =
                    ScanTask(tk.paths, NextPublished(tk.paths, tk.idx + 1))]
    IN
    /\ tk.pc = "scanRead"
    /\ IF ~vault[tk.file].isFile
       THEN \* vault.read rejects: the exception ends the scan
            /\ tasks' = [tasks EXCEPT ![t] = IdleTask]
            /\ UNCHANGED pendingChanges
       ELSE /\ pendingChanges' = MapSet(pendingChanges, tk.file, ~same)
            /\ tasks' = IF same THEN rest ELSE NoteDirty(rest, tk.file)
    /\ UNCHANGED <<settings, vault, published, publishQueue, publishingInProgress,
                   timers, remote, loaded, lastLog, world>>

\* onload
\* The chain of onload waits in loadSettings for loadData (pc "loadData",
\* settings holding what the stored data and the defaults merge to), then
\* goes on in onload (pc "onload") and in initialRepoScan.
LoadTask == [IdleTask EXCEPT !.pc = "loadData", !.origin = "onload"]

\* loadSettings: loadData answers, the merged settings are sanitized
LoadSettings(t) ==
    /\ tasks[t].pc = "loadData"
    /\ settings' = sanitizeSettings(settings)
    /\ tasks' = [tasks EXCEPT ![t] = [@ EXCEPT !.pc = "onload"]]
    /\ UNCHANGED <<vault, published, pendingChanges, publishQueue,
                   publishingInProgress, timers, remote, loaded, lastLog, world>>

\* onload after loadSettings: commands, events and the settings tab are
\* registered; initialRepoScan up to its GET of the repository
Onload(t) ==
    /\ tasks[t].pc = "onload"
    /\ loaded' = TRUE
    /\ tasks' = [tasks EXCEPT ![t] =
           IF ensureGitHubConfig /\ parseRepo # "null"
           THEN [@ EXCEPT !.pc = "scanInfo", !.origin = "scan"]
           ELSE IdleTask]
    /\ UNCHANGED <<settings, vault, published, pendingChanges, publishQueue,
                   publishingInProgress, timers, remote, lastLog, world>>

\* initialRepoScan: the GET of the repository answers
InitialScanInfo(t) ==
    /\ tasks[t].pc = "scanInfo"
    /\ \E ok \in world.replies :
          tasks' = [tasks EXCEPT ![t] =
              IF ok THEN [@ EXCEPT !.pc = "scanHead"] ELSE IdleTask]
    /\ UNCHANGED <<settings, vault, published, pendingChanges, publishQueue,
                   publishingInProgress, timers, remote, loaded, lastLog, world>>

\* initialRepoScan, ensureBranchExists: a GET of the branch ref answers; with
\* a head the scan starts, without one the first GET goes on to
\* initializeBranch and the second one gives up
InitialScanHead(t) ==
    /\ tasks[t].pc \in {"scanHead", "scanHead2"}
    /\ \E ok \in world.replies :
          tasks' = [tasks EXCEPT ![t] =
              IF ok /\ remote.exists
              THEN ScanTask(getMarkdownFiles, NextPublished(getMarkdownFiles, 1))
              ELSE IF tasks[t].pc = "scanHead" THEN [@ EXCEPT !.pc = "scanInit"]
              ELSE IdleTask]
    /\ UNCHANGED <<settings, vault, published, pendingChanges, publishQueue,
                   publishingInProgress, timers, remote, loaded, lastLog, world>>

\* initialRepoScan, initializeBranch: the PUT of .gitkeep answers
InitialScanInit(t) ==
    /\ tasks[t].pc = "scanInit"
    /\ \E ok \in world.replies :
          IF ok /\ ~remote.gitkeep
          THEN /\ remote' = [remote EXCEPT !.exists = TRUE, !.gitkeep = TRUE]
               /\ tasks' = [u \in Tasks |->
                      IF u = t THEN [tasks[t] EXCEPT !.pc = "scanHead2"]
                      ELSE HeadMoved(tasks[u])]
          ELSE /\ tasks' = [tasks EXCEPT ![t] = IdleTask]
               /\ UNCHANGED remote
    /\ UNCHANGED <<settings, vault, published, pendingChanges, publishQueue,
                   publishingInProgress, timers, loaded, lastLog, world>>

\* the steps of onload
OnloadStep(t) ==
    \/ LoadSettings(t)
    \/ Onload(t)
    \/ InitialScanInfo(t)
    \/ InitialScanHead(t)
    \/ InitialScanInit(t)

\* the steps of scanPublishedFiles
ScanStep(t) ==
    \/ ScanLookup(t)
    \/ ScanCompare(t)

----
\* the steps of queueFileForPublish, processPublishQueue and publishBatch
BatchStep(t) ==
    \/ QueueFileForPublish(t)
    \/ ResolveHead(t)
    \/ InitBranch(t)
    \/ ReResolve(t)
    \/ UploadBlob(t)
    \/ BuildTree(t)
    \/ CreateCommit(t)
    \/ UpdateRef(t)
    \/ SaveDone(t)

\* the steps of setPublished and deleteFileFromRepo
FlagStep(t) ==
    \/ FrontMatterDone(t)
    \/ DeleteLookup(t)
    \/ DeleteDone(t)

Next ==
    \/ \E f \in AllPaths : EditorChange(f)
    \/ \E f \in AllPaths : VaultModify(f)
    \/ \E f \in AllPaths : DeleteFile(f)
    \/ InactivityExpire
    \/ SessionExpire
    \/ DebounceExpire
    \/ \E f \in AllPaths : CmdPublishCurrent(f)
    \/ CmdPublishAll
    \/ \E f \in AllPaths, v \in BOOLEAN : SetPublishedCall(f, v)
    \/ \E v \in BOOLEAN : SetAutoPublish(v)
    \/ \E v \in {"", Token} : SetToken(v)
    \/ \E v \in RepoUris : SetRepoUri(v)
    \/ \E v \in Branches : SetBranch(v)
    \/ CmdRescan
    \/ Unload
    \/ \E t \in Tasks : BatchStep(t)
    \/ \E t \in Tasks : FlagStep(t)
    \/ \E t \in Tasks : ScanStep(t)
    \/ \E t \in Tasks : OnloadStep(t)

Init ==
    InitWith([AllPaths -> BOOLEAN], {NoBranch, EmptyBranch, FullBranch},
             World({1}, Unreliable, {}))

Spec == Init /\ [][Next]_vars

----
\* Specifications.  Each draws its environment from the actions above.

\* Triggers: edits, both timers, both manual commands
NextTrig ==
    \/ \E f \in AllPaths : EditorChange(f)
    \/ \E f \in AllPaths : VaultModify(f)
    \/ InactivityExpire
    \/ SessionExpire
    \/ \E f \in AllPaths : CmdPublishCurrent(f)
    \/ CmdPublishAll
    \/ \E t \in Tasks : BatchStep(t)

SpecTrig ==
    InitWith(AllPublished, {PlainBranch}, World({1}, Unreliable, {})) /\ [][NextTrig]_vars

\* Batch runs against saves and deleted files
NextBatch ==
    \/ \E f \in AllPaths : VaultModify(f)
    \/ \E f \in AllPaths : DeleteFile(f)
    \/ \E f \in AllPaths : CmdPublishCurrent(f)
    \/ CmdPublishAll
    \/ \E t \in Tasks : BatchStep(t)

SpecBatch ==
    InitWith(AllPublished, {PlainBranch}, World({1}, Unreliable, {"ref_fail"}))
        /\ [][NextBatch]_vars

\* Batch runs against a repository whose branch is missing or empty
NextFresh ==
    \/ \E f \in AllPaths : VaultModify(f)
    \/ \E f \in AllPaths : CmdPublishCurrent(f)
    \/ \E t \in Tasks : BatchStep(t)

SpecFresh ==
    InitWith(AllPublished, {NoBranch, EmptyBranch},
             World({1}, Unreliable, {"batch_no_blobs"})) /\ [][NextFresh]_vars

\* Saves while a run is in flight, the dirty marks recorded
SpecDirty ==
    InitWith(AllPublished, {PlainBranch}, World({1, 2}, Unreliable, {"dirty"}))
        /\ [][NextFresh]_vars

\* The scheduler: edits, the three timers, the Auto Publish toggle, unload
NextCancel ==
    \/ \E f \in AllPaths : EditorChange(f)
    \/ \E f \in AllPaths : VaultModify(f)
    \/ InactivityExpire
    \/ SessionExpire
    \/ DebounceExpire
    \/ \E v \in BOOLEAN : SetAutoPublish(v)
    \/ Unload
    \/ \E t \in Tasks : BatchStep(t)

SpecCancel ==
    InitWith(AllPublished, {NoBranch}, World({1}, Reliable, {})) /\ [][NextCancel]_vars

\* An edit typed into the editor of a published file and saved: the
\* 'editor-change' handler and the vault 'modify' handler, one after the other
EditAndSave(f) ==
    /\ loaded
    /\ vault[f].isFile
    /\ settings.autoPublishEnabled
    /\ published[f]
    /\ timers' = handleEditorActivity(f)
    /\ \E c \in world.contents, s \in world.sizes :
          vault' = [vault EXCEPT ![f].content = c, ![f].size = s]
    /\ pendingChanges' = MapSet(pendingChanges, f, TRUE)
    /\ tasks' = NoteDirty(tasks, f)
    /\ UNCHANGED <<settings, published, publishQueue, publishingInProgress,
                   remote, loaded, lastLog, world>>

\* Auto-publish left to itself: edits, the timers and the runs they start,
\* every request succeeding.  A timer that stays armed fires, and an awaited
\* request is answered.
NextLive ==
    \/ \E f \in AllPaths : EditAndSave(f)
    \/ InactivityExpire
    \/ SessionExpire
    \/ DebounceExpire
    \/ \E t \in Tasks : BatchStep(t)

SpecLive ==
    /\ InitWith(AllPublished, {NoBranch}, World({1}, Reliable, {}))
    /\ [][NextLive]_vars
    /\ WF_vars(InactivityExpire)
    /\ WF_vars(SessionExpire)
    /\ WF_vars(DebounceExpire)
    /\ \A t \in Tasks : WF_vars(BatchStep(t))

----
\* The steps of a batch run, read off a pair of states

RunsInFlight == {t \in Tasks : InBatch(tasks[t])}

\* processPublishQueue takes its snapshot and calls publishBatch in task t
RunStarts(t) == ~InBatch(tasks[t]) /\ InBatch(tasks'[t])

\* the run of task t takes a step
RunStep(t) ==
    /\ InBatch(tasks[t])
    /\ tasks'[t].pc # tasks[t].pc \/ tasks'[t].idx # tasks[t].idx

\* the ref update of task t's run is accepted
RefUpdated(t) == tasks[t].pc = "ref" /\ tasks'[t].pc = "save"

\* initializeBranch of task t's run has committed .gitkeep
BranchInitialized(t) == tasks[t].pc = "init" /\ tasks'[t].pc = "resolve2"

\* the run of task t is over
RunEnds(t) == InBatch(tasks[t]) /\ ~InBatch(tasks'[t])

IsDirty(p) == MapGet(pendingChanges, p)

BlobPaths(tk) == {tk.blobs[i].path : i \in 1..Len(tk.blobs)}

\* C1: at most one batch run (publishBatch) is in flight at any time,
\* whatever the interleaving of timer expiries, manual commands and edits.
C1_OneRunInFlight == Cardinality(RunsInFlight) <= 1

\* C1 witness: a trigger arrived while a run was in flight: its path is
\* queued, it is not in the run's snapshot, and no second run was started.
C1_Witness ==
    \E t \in Tasks :
        /\ InBatch(tasks[t])
        /\ publishingInProgress
        /\ \E p \in Range(publishQueue) : p \notin Range(tasks[t].paths)

\* C2: a path marked dirty after a run has taken its snapshot and read that
\* path's content (dirtiedSince) is still dirty when the run completes,
\* whatever the run's outcome.
C2_LateDirtySurvives ==
    [][\A t \in Tasks :
          RunEnds(t) => \A p \in tasks[t].dirtiedSince : MapGet(pendingChanges', p)]_vars

\* C3: the step that accepts the ref update sets the entry of every path of
\* the snapshot to false and leaves every other entry as it was.
C3_SnapshotCleared ==
    [][\A t \in Tasks :
          RefUpdated(t) =>
            \A p \in AllPaths :
               IF p \in Range(tasks[t].paths)
               THEN MapHas(pendingChanges', p) /\ ~MapGet(pendingChanges', p)
               ELSE /\ MapHas(pendingChanges', p) = MapHas(pendingChanges, p)
                    /\ MapGet(pendingChanges', p) = MapGet(pendingChanges, p)]_vars

\* C3 witness: a ref update was accepted: the snapshot's paths are clean and
\* a path outside the snapshot is dirty.
C3_Witness ==
    \E t \in Tasks :
        /\ tasks[t].pc = "save"
        /\ \A q \in Range(tasks[t].paths) : MapHas(pendingChanges, q) /\ ~IsDirty(q)
        /\ \E p \in AllPaths \ Range(tasks[t].paths) : IsDirty(p)

\* C4: when the ref update is accepted, a dirty path of the snapshot that
\* produced no blob (its upload failed, or it is no longer a file) is still
\* dirty afterwards.
C4_FailedPathStaysDirty ==
    [][\A t \in Tasks :
          RefUpdated(t) =>
            \A p \in Range(tasks[t].paths) \ BlobPaths(tasks[t]) :
               IsDirty(p) => MapGet(pendingChanges', p)]_vars

\* C5: every step of a run other than the accepted ref update (the start of
\* the run and each of its failures included) leaves pendingChanges as it was.
C5_FailureKeepsDirty ==
    [][\A t \in Tasks :
          (RunStarts(t) \/ RunStep(t)) /\ ~RefUpdated(t)
             => pendingChanges' = pendingChanges]_vars

\* C5 witness: a ref update was rejected and a path is still dirty.
C5_Witness ==
    /\ lastLog = "ref_fail"
    /\ RunsInFlight = {}
    /\ \E p \in AllPaths : IsDirty(p)

\* a path publishAllPending hands on and queueFileForPublish accepts
Eligible(p) ==
    vault[p].isFile /\ published[p] /\ isSafePath(p) /\ ~isTooLarge(p)

\* C6: a run started by the session timer's publish-all, no other run being
\* in flight, has every dirty eligible path in its snapshot.
C6_SessionDrainsAll ==
    [][\A t \in Tasks :
          RunStarts(t) /\ tasks[t].origin = "session" /\ ~publishingInProgress
             => \A p \in AllPaths :
                   IsDirty(p) /\ Eligible(p) => p \in Range(tasks'[t].paths)]_vars

\* C7 (as stated): every step of a run other than the accepted ref update
\* leaves the remote repository as it was.
C7_OnlyRefUpdateWrites ==
    [][\A t \in Tasks :
          (RunStarts(t) \/ RunStep(t)) /\ ~RefUpdated(t) => remote' = remote]_vars

\* C7 (amended): a run changes the remote repository at two steps only:
\* initializeBranch's commit of .gitkeep, which creates the branch if it is
\* missing and leaves the published files alone, and the accepted ref update.
C7_PlaceholderOrRefUpdate ==
    [][\A t \in Tasks :
          /\ (RunStarts(t) \/ RunStep(t)) /\ ~RefUpdated(t) /\ ~BranchInitialized(t)
                => remote' = remote
          /\ BranchInitialized(t)
                => remote' = [remote EXCEPT !.exists = TRUE, !.gitkeep = TRUE]]_vars

\* C7 witness: a run committed .gitkeep and failed before the ref update: the
\* branch holds the placeholder and none of the files.
C7_Witness ==
    /\ lastLog = "batch_no_blobs"
    /\ RunsInFlight = {}
    /\ remote.exists /\ remote.gitkeep
    /\ \A p \in AllPaths : remote.files[p] = 0

\* C8: with auto-publish enabled, a valid configuration and every request
\* succeeding, a dirty path is eventually clean, under fair timers and runs.
C8_DirtyEventuallyClean ==
    \A p \in AllPaths : IsDirty(p) ~> ~IsDirty(p)

\* C9: the inactivity timer's expiry for a published, safe, dirty document
\* suspends exactly one call chain on that document; when that chain reaches
\* processPublishQueue with the document eligible, the configuration valid
\* and no run in flight, it starts a run whose snapshot holds the document
\* and which is the only run in flight; and when that run's ref update is
\* accepted the document is clean.
C9_InactivityPublishesOne ==
    [][/\ ( /\ timers.inactivityHandle = "armed"
            /\ timers'.inactivityHandle = "fired"
            /\ settings.autoPublishEnabled
            /\ published[timers.inactivityFile]
            /\ IsDirty(timers.inactivityFile) )
          => Cardinality({t \in Tasks :
                 /\ tasks'[t] # tasks[t]
                 /\ tasks'[t].pc = "size"
                 /\ tasks'[t].origin = "inact"
                 /\ tasks'[t].file = timers.inactivityFile}) = 1
       /\ \A t \in Tasks :
            /\ ( /\ tasks[t].origin = "inact"
                 /\ tasks[t].pc = "size"
                 /\ tasks'[t] # tasks[t]
                 /\ Eligible(tasks[t].file)
                 /\ ensureGitHubConfig
                 /\ ~publishingInProgress )
               => /\ tasks'[t].pc = "resolve"
                  /\ tasks[t].file \in Range(tasks'[t].paths)
                  /\ {u \in Tasks : InBatch(tasks'[u])} = {t}
            /\ RefUpdated(t) /\ tasks[t].origin = "inact"
               => /\ MapHas(pendingChanges', tasks[t].file)
                  /\ ~MapGet(pendingChanges', tasks[t].file)]_vars

\* C9 witness: the run started by the inactivity timer has had its ref
\* update accepted, and its document is clean.
C9_Witness ==
    \E t \in Tasks :
        /\ tasks[t].origin = "inact"
        /\ tasks[t].pc = "save"
        /\ tasks[t].file \in Range(tasks[t].paths)
        /\ MapHas(pendingChanges, tasks[t].file)
        /\ ~IsDirty(tasks[t].file)

\* C10: a step that disables auto-publish, or that unloads the plugin,
\* leaves all timers cancelled (the scheduler Idle).
C10_CancelOnDisableOrUnload ==
    [][( \/ settings.autoPublishEnabled /\ ~settings'.autoPublishEnabled
         \/ loaded /\ ~loaded' )
          => timers' = IdleTimers]_vars

\* C11: every path of a run's snapshot has been marked dirty before the run
\* starts.  (No step of SpecFresh removes an entry of pendingChanges, and up
\* to the first run that breaks this an entry exists only for a path that
\* was marked dirty.)
C11_SnapshotOnlyDirtied ==
    [][\A t \in Tasks :
          RunStarts(t) =>
             \A p \in Range(tasks'[t].paths) : MapHas(pendingChanges, p)]_vars

----
\* The eligibility filter: an unpublished file, files with unsafe paths,
\* files over the size limit, with and without a size from adapter.stat

OnlyAUnpublished == {f \in [AllPaths -> BOOLEAN] : \A p \in AllPaths \ {PathA} : f[p]}

FilterWorld(statSize) ==
    [World({1}, Unreliable, {}) EXCEPT
        !.files = {PathA, PathDot, PathUp},
        !.sizes = {SmallSize, LargeSize, WideSize},
        !.statSize = statSize]

NextFilter ==
    \/ \E f \in AllPaths : VaultModify(f)
    \/ \E f \in AllPaths : CmdPublishCurrent(f)
    \/ CmdPublishAll
    \/ \E t \in Tasks : BatchStep(t)

SpecFilter ==
    /\ \E statSize \in BOOLEAN :
          InitWith(OnlyAUnpublished, {PlainBranch}, FilterWorld(statSize))
    /\ [][NextFilter]_vars

\* the size of p in bytes is over the configured ceiling
OverCeiling(p) == vault[p].size.bytes > settings.maxFileSizeKB * 1024

\* C12: the publish queue holds no path twice, and a path is added to it only
\* when its published flag is true, its path is safe and its size in bytes
\* does not exceed the ceiling.
C12_QueueEligible ==
    [][/\ Len(publishQueue') = Cardinality(Range(publishQueue'))
       /\ \A p \in Range(publishQueue') \ Range(publishQueue) :
             published[p] /\ isSafePath(p) /\ ~OverCeiling(p)]_vars

\* C18: a publication request for a file whose size in bytes exceeds the
\* ceiling leaves the publish queue and the remote as they are and starts no
\* run; a path that begins with '.' or contains '..' never gets past
\* queueFileForPublish's first guard and is never in the queue.
C18_RejectedLeavesQueue ==
    [][/\ \A t \in Tasks :
             ( /\ tasks[t].pc = "size"
               /\ tasks'[t] # tasks[t]
               /\ vault[tasks[t].file].isFile
               /\ OverCeiling(tasks[t].file) )
             => /\ publishQueue' = publishQueue
                /\ remote' = remote
                /\ ~InBatch(tasks'[t])
       /\ \A t \in Tasks : tasks'[t].pc = "size" => isSafePath(tasks'[t].file)
       /\ \A p \in Range(publishQueue') : isSafePath(p)]_vars

----
\* Publishing and unpublishing side by side

NextFlag ==
    \/ \E f \in AllPaths : VaultModify(f)
    \/ \E f \in AllPaths : CmdPublishCurrent(f)
    \/ \E f \in AllPaths, v \in BOOLEAN : SetPublishedCall(f, v)
    \/ \E t \in Tasks : BatchStep(t)
    \/ \E t \in Tasks : FlagStep(t)

SpecFlag ==
    InitWith(AllPublished, {PlainBranch}, World({1}, Unreliable, {})) /\ [][NextFlag]_vars

\* the DELETE of task t's deleteFileFromRepo is accepted
RemoteDeleted(t) ==
    tasks[t].pc = "delReq" /\ tasks'[t].pc = "idle" /\ remote' # remote

\* the branch holds no object at path p
RemoteMissing(p) == ~remote.exists \/ remote.files[p] = 0

MutatingPcs == {"init", "blob", "tree", "commit", "ref", "delReq"}

\* C14: at most one request that writes to the repository (a batch run's
\* writes, the branch initialization, an unpublish delete) is in flight.
C14_OneRemoteWriter ==
    Cardinality({t \in Tasks : tasks[t].pc \in MutatingPcs}) <= 1

----
\* Retrying after a rejected ref update, the Auto Publish setting changing

NextRetry ==
    \/ \E f \in AllPaths : VaultModify(f)
    \/ CmdPublishAll
    \/ \E v \in BOOLEAN : SetAutoPublish(v)
    \/ \E t \in Tasks : BatchStep(t)

SpecRetry ==
    InitWith(AllPublished, {PlainBranch}, World({1}, Unreliable, {"ref_fail"}))
        /\ [][NextRetry]_vars

\* C15: after a run has ended in a rejected ref update, whenever the
\* publish-all command is available (the plugin is loaded, the configuration
\* valid, nothing in flight) and a path is dirty and eligible, invoking the
\* command starts a drain.
C15_RetryByPublishAll ==
    ( /\ lastLog = "ref_fail"
      /\ loaded
      /\ ensureGitHubConfig
      /\ \A t \in Tasks : tasks[t].pc = "idle"
      /\ \E p \in AllPaths : IsDirty(p) /\ Eligible(p) )
    => ENABLED CmdPublishAll

----
\* Runs repeated after a failure, the files changing in between

SpecReplay ==
    InitWith(AllPublished, {PlainBranch},
             World({1, 2}, Unreliable, {"dirty", "commit_fail"})) /\ [][NextFresh]_vars

\* the commit a run has built: its parent and its path-to-content entries
CommitOf(tk) ==
    [parent |-> tk.baseSha,
     entries |-> {<<tk.blobs[i].path, tk.blobs[i].sha>> : i \in 1..Len(tk.blobs)}]

\* the commit a first, fully successful run over `paths` builds from the
\* present files on the present head
FirstAttempt(paths) ==
    [parent |-> "head",
     entries |-> {<<p, vault[p].content>> : p \in Range(paths)}]

\* every path of the run's snapshot produced a blob, no file of the snapshot
\* has changed since it was read, and the head has not moved since it was
\* resolved
Undisturbed(tk) ==
    /\ Len(tk.blobs) = Len(tk.paths)
    /\ tk.dirtiedSince \cap Range(tk.paths) = {}
    /\ tk.baseSha = "head"

\* C16: the commit a run has built, if the run is undisturbed, is the commit
\* of a first successful attempt over the same paths, whatever runs failed
\* before it.
C16_RetryBuildsSameCommit ==
    \A t \in Tasks :
        tasks[t].pc = "ref" /\ Undisturbed(tasks[t])
           => CommitOf(tasks[t]) = FirstAttempt(tasks[t].paths)

\* C16 witness: after a run that failed at the commit, with a file changed
\* since the plugin was loaded, a run over both files has built its commit.
C16_Witness ==
    /\ lastLog = "commit_fail"
    /\ vault[PathA].content = 2
    /\ \E t \in Tasks :
          /\ tasks[t].pc = "ref"
          /\ Undisturbed(tasks[t])
          /\ Range(tasks[t].paths) = {PathA, PathB}

----
\* Publishing and rescanning, the files changing

NextScan ==
    \/ \E f \in AllPaths : VaultModify(f)
    \/ \E f \in AllPaths : CmdPublishCurrent(f)
    \/ CmdRescan
    \/ \E t \in Tasks : BatchStep(t)
    \/ \E t \in Tasks : ScanStep(t)

SpecScan ==
    InitWith(AllPublished, {PlainBranch}, World({1, 2}, Unreliable, {}))
        /\ [][NextScan]_vars

\* the run of task t reports success: batch_ok is logged
ReportsSuccess(t) == tasks[t].pc = "save" /\ tasks'[t].pc # "save"

\* C17: when a run reports success, a scan of the state it leaves finds every
\* document of the run's snapshot that the run has left clean to be clean
\* (neither missing nor out of sync).
C17_PublishedScansClean ==
    [][\A t \in Tasks :
          ReportsSuccess(t) =>
             \A p \in Range(tasks[t].paths) :
                 ~MapGet(pendingChanges', p) => ScanVerdict(p)' = "clean"]_vars

----
\* Settings: the plugin loads stored settings of every kind, then the
\* settings tab changes the URL, the branch and the auto-publish toggle
RawSettings ==
    [repoUri : RepoUris, githubToken : {"", Token}, autoPublishEnabled : BOOLEAN,
     defaultBranch : Branches, maxFileSizeKB : {10, DefaultMaxFileSizeKB}]

InitSettings ==
    /\ settings \in RawSettings
    /\ world = World({1}, Unreliable, {})
    /\ vault = [p \in AllPaths |->
                  [isFile |-> p \in world.files, content |-> 1, size |-> SmallSize]]
    /\ published \in AllPublished
    /\ pendingChanges = <<>>
    /\ publishQueue = <<>>
    /\ publishingInProgress = FALSE
    /\ timers = IdleTimers
    /\ remote \in {NoBranch, PlainBranch}
    /\ tasks = [t \in Tasks |-> IF t = 1 THEN LoadTask ELSE IdleTask]
    /\ loaded = FALSE
    /\ lastLog = "none"

NextSettings ==
    \/ \E v \in RepoUris : SetRepoUri(v)
    \/ \E v \in Branches : SetBranch(v)
    \/ \E v \in BOOLEAN : SetAutoPublish(v)
    \/ \E t \in Tasks : OnloadStep(t)
    \/ \E t \in Tasks : ScanStep(t)

SpecSettings == InitSettings /\ [][NextSettings]_vars

\* a step in which loadSettings sanitizes the settings
Sanitizes(t) == tasks[t].pc = "loadData" /\ tasks'[t].pc = "onload"

\* C19: sanitizeSettings resets an invalid repository URL to the empty text
\* and an invalid branch name to 'main', in both cases with auto-publish
\* switched off afterwards; with a valid URL and a valid branch it leaves
\* autoPublishEnabled as it was.
C19_SanitizeDisablesAutoPublish ==
    [][\A t \in Tasks :
          Sanitizes(t) =>
             /\ ~RepoUriOk(settings.repoUri) =>
                   settings'.repoUri = "" /\ ~settings'.autoPublishEnabled
             /\ ~BranchOk(settings.defaultBranch) =>
                   settings'.defaultBranch = MainBranch /\ ~settings'.autoPublishEnabled
             /\ RepoUriOk(settings.repoUri) /\ BranchOk(settings.defaultBranch) =>
                   settings'.autoPublishEnabled = settings.autoPublishEnabled]_vars

----
\* The session timer, read off a pair of states

\* an editor activity takes effect: only handleEditorActivity arms the
\* inactivity timeout, names its file or arms the debounce timeout
EditActs ==
    /\ timers'.inactivityHandle = "armed"
    /\ \/ timers.inactivityHandle # "armed"
       \/ timers'.inactivityFile # timers.inactivityFile
       \/ timers.debounceHandle # "armed" /\ timers'.debounceHandle = "armed"

\* the inactivity timeout fires
InactivityFires == timers.inactivityHandle = "armed" /\ timers'.inactivityHandle = "fired"

\* the session timeout fires: its callback is in flight, or has ended with
\* clearTimers()
SessionFires ==
    /\ loaded'
    /\ \/ timers' = [timers EXCEPT !.sessionHandle = "fired"]
       \/ timers' = clearTimers

\* onunload() cancels the timers
Cancels == loaded /\ ~loaded' /\ timers' = clearTimers

SessionKept ==
    /\ timers'.sessionHandle = timers.sessionHandle
    /\ timers'.sessionStart = timers.sessionStart

\* C20: once the session timer is started, no editor activity and no expiry
\* of the inactivity timer resets, extends or clears it: while it is pending
\* its handle changes only when it fires or when unloading cancels it; an
\* editor activity arms the inactivity timer and the debounce gate and
\* nothing else.
C20_SessionDeadlineFixed ==
    [][/\ SessionPending =>
             /\ EditActs \/ InactivityFires => SessionKept
             /\ SessionKept \/ SessionFires \/ Cancels
       /\ EditActs /\ timers.sessionStart =>
             /\ SessionKept
             /\ timers'.debounceHandle = "armed"]_vars

\* C20 witness: the session timer started by a first activity is still
\* pending after the inactivity timer fired (its publish is in flight) and a
\* later activity armed the inactivity timer again
C20_Witness ==
    /\ timers.sessionHandle = "armed"
    /\ timers.inactivityHandle = "armed"
    /\ \E t \in Tasks : tasks[t].origin = "inact"

\* C21: after the session timer fired, every editor activity, also one made
\* while the callback's publish-all is still in flight, starts a new cycle:
\* the session timer and the inactivity timer are both pending after it.
C21_EditAfterExpiryStartsCycle ==
    [][EditActs /\ ~SessionPending =>
          /\ timers'.sessionHandle \in {"armed", "rearmed"}
          /\ timers'.inactivityHandle = "armed"]_vars

----
\* The Pending State Store against the branch

\* path p is a published file whose content differs from the content the
\* branch holds for it (0: none)
OutOfSync(p) ==
    published[p] /\ vault[p].isFile /\ remote.files[p] # vault[p].content

\* C22: whenever no batch run is in flight, a path is dirty if and only if
\* it is published and its local content differs from the last committed
\* remote content, or it was never confirmed in sync; so a published file
\* that differs from the branch is dirty.
C22_DirtyIffOutOfSync ==
    RunsInFlight = {} =>
        \A p \in AllPaths : OutOfSync(p) => MapGet(pendingChanges, p)

----
\* Startup: onload with a valid configuration goes into initialRepoScan
\* while files are saved; the rescan command runs the scan again
OnloadTask == [IdleTask EXCEPT !.pc = "onload", !.origin = "onload"]

InitStartup ==
    /\ settings = [repoUri |-> ValidRepo, githubToken |-> Token,
                   autoPublishEnabled |-> TRUE, defaultBranch |-> MainBranch,
                   maxFileSizeKB |-> DefaultMaxFileSizeKB]
    /\ world = World({1, 2}, Unreliable, {})
    /\ vault = [p \in AllPaths |->
                  [isFile |-> p \in world.files, content |-> 1, size |-> SmallSize]]
    /\ published \in OnlyAUnpublished
    /\ pendingChanges = <<>>
    /\ publishQueue = <<>>
    /\ publishingInProgress = FALSE
    /\ timers = IdleTimers
    /\ remote \in {NoBranch, EmptyBranch, PlainBranch}
    /\ tasks = [t \in Tasks |-> IF t = 1 THEN OnloadTask ELSE IdleTask]
    /\ loaded = FALSE
    /\ lastLog = "none"

NextStartup ==
    \/ \E f \in AllPaths : VaultModify(f)
    \/ CmdRescan
    \/ \E t \in Tasks : Onload(t)
    \/ \E t \in Tasks : InitialScanInfo(t)
    \/ \E t \in Tasks : InitialScanHead(t)
    \/ \E t \in Tasks : InitialScanInit(t)
    \/ \E t \in Tasks : ScanStep(t)

SpecStartup == InitStartup /\ [][NextStartup]_vars

\* a step of initialRepoScan or scanPublishedFiles in task t
ScanActs(t) == tasks[t].origin \in {"onload", "scan"} /\ tasks'[t] # tasks[t]

\* the GET of the contents of the scanned path answers in task t
Fetches(t) == tasks[t].pc = "scanGet" /\ tasks'[t] # tasks[t]

\* the scanned file has been read in task t and is compared
Compares(t) ==
    tasks[t].pc = "scanRead" /\ tasks'[t] # tasks[t] /\ vault[tasks[t].file].isFile

\* the branch holds no content for path p
RemoteAbsent(p) == ~remote.exists \/ remote.files[p] = 0

\* what a step of the scan leaves alone: the queue, the in-flight flag, the
\* batch runs, and every entry of the Pending State Store except the one of
\* the published path it is at
ScanFrame(t) ==
    /\ publishQueue' = publishQueue
    /\ publishingInProgress' = publishingInProgress
    /\ \A u \in Tasks : ~RunStarts(u)
    /\ \A p \in AllPaths :
          (MapHas(pendingChanges', p) # MapHas(pendingChanges, p)
             \/ MapGet(pendingChanges', p) # MapGet(pendingChanges, p))
          => p = tasks[t].file /\ published[p] /\ tasks[t].pc \in {"scanGet", "scanRead"}

\* C23 as stated: the scan marks a published document dirty when the remote
\* content is absent or differs from the local content and clean when they
\* match, touches no other document, adds nothing to the queue, starts no
\* run and issues no remote write.
C23_ScanNoRemoteWrite ==
    [][\A t \in Tasks :
          ScanActs(t) =>
             /\ ScanFrame(t)
             /\ remote' = remote
             /\ Fetches(t) /\ MapGet(pendingChanges', tasks[t].file)
                           /\ ~MapGet(pendingChanges, tasks[t].file)
                   => RemoteAbsent(tasks[t].file)
             /\ Compares(t) =>
                   /\ MapHas(pendingChanges', tasks[t].file)
                   /\ MapGet(pendingChanges', tasks[t].file)
                         = (vault[tasks[t].file].content # tasks[t].sha)]_vars

\* C23 amended: before the scan, initialRepoScan creates a missing branch by
\* the .gitkeep placeholder and writes nothing else; the scan marks a
\* published document dirty when its remote content is absent or could not
\* be fetched, dirty when the fetched content differs from the local content
\* and clean when they are the same; it touches no other document, adds
\* nothing to the queue and starts no run.
C23_ScanMarksOnly ==
    [][\A t \in Tasks :
          ScanActs(t) =>
             /\ ScanFrame(t)
             /\ remote' # remote =>
                   /\ tasks[t].pc = "scanInit"
                   /\ ~remote.gitkeep
                   /\ remote' = [remote EXCEPT !.exists = TRUE, !.gitkeep = TRUE]
             /\ Fetches(t) =>
                   /\ RemoteAbsent(tasks[t].file) => MapGet(pendingChanges', tasks[t].file)
                   /\ tasks'[t].pc = "scanRead"
                         => /\ ~RemoteAbsent(tasks[t].file)
                            /\ tasks'[t].sha = remote.files[tasks[t].file]
                            /\ pendingChanges' = pendingChanges
                   /\ tasks'[t].pc # "scanRead" => MapGet(pendingChanges', tasks[t].file)
             /\ Compares(t) =>
                   /\ MapHas(pendingChanges', tasks[t].file)
                   /\ MapGet(pendingChanges', tasks[t].file)
                         = (vault[tasks[t].file].content # tasks[t].sha)]_vars

\* C23 witness: the scan that follows the creation of the branch has marked
\* a.md and is at b.md
C23_Witness ==
    /\ remote.gitkeep
    /\ MapHas(pendingChanges, PathA)
    /\ \E t \in Tasks : tasks[t].origin = "scan" /\ tasks[t].file = PathB

----
\* setPublished(p, false) has completed and the flag has not been set again
Retracted(p) ==
    /\ ~published[p]
    /\ \A t \in Tasks : ~(tasks[t].origin = "setPub" /\ tasks[t].file = p)

\* C24: once the publish intent of a path is retracted, no batch run, in
\* flight at that moment or started later, writes the path to the branch or
\* creates its entry in the Pending State Store again, as long as the intent
\* stays retracted.
C24_RetractedNotPublished ==
    [][\A p \in AllPaths :
          Retracted(p) /\ Retracted(p)' =>
             /\ remote'.files[p] \in {remote.files[p], 0}
             /\ MapHas(pendingChanges', p) => MapHas(pendingChanges, p)]_vars

----
\* Release: runs against failing requests and failing reads, every request
\* being answered in the end
SpecRelease ==
    /\ InitWith(AllPublished, {PlainBranch}, World({1}, Unreliable, {"tree_fail"}))
    /\ [][NextFresh]_vars
    /\ \A t \in Tasks : WF_vars(BatchStep(t))

\* C25: the in-flight flag is always released: every batch run, however it
\* ends, leaves the flag false, and a flag that is set is cleared later on.
C25_FlagReleased ==
    /\ [][\A t \in Tasks : RunEnds(t) => ~publishingInProgress']_vars
    /\ publishingInProgress ~> ~publishingInProgress

\* C25 witness: a run has been aborted by a failed tree request, the flag is
\* clear and the next trigger can start a run
C25_Witness ==
    /\ lastLog = "tree_fail"
    /\ ~publishingInProgress
    /\ RunsInFlight = {}
    /\ CanStartRun

----
\* Queue: runs against publish commands for other files, every outcome of a
\* run observed
Outcomes ==
    {"batch_abort_branch", "batch_no_blobs", "tree_fail", "commit_fail",
     "ref_fail", "batch_ok", "rejected"}

SpecQueue ==
    InitWith(AllPublished, {PlainBranch}, World({1}, Unreliable, Outcomes))
        /\ [][NextFresh]_vars

\* publishBatch returns in task t, by success or by an abort, and
\* processPublishQueue goes on behind it
Returns(t) == RunEnds(t) /\ lastLog' # "rejected"

\* C26: when a batch run returns, exactly the paths of its snapshot are
\* removed from the Publish Queue; a queued path that is not in the snapshot
\* stays queued, its dirty flag as it was; and the snapshot of a run that
\* starts holds every queued path.
C26_SnapshotLeavesQueue ==
    [][\A t \in Tasks :
          /\ Returns(t) =>
                /\ Range(publishQueue') = Range(publishQueue) \ Range(tasks[t].paths)
                /\ \A p \in Range(publishQueue) \ Range(tasks[t].paths) :
                      IsDirty(p)' = IsDirty(p)
          /\ RunStarts(t) =>
                /\ Range(publishQueue) \subseteq Range(tasks'[t].paths)
                /\ Range(tasks'[t].paths) = Range(publishQueue')]_vars

\* C26 witness: a run with snapshot [a.md] has returned with success while
\* b.md, enqueued during the run, is still queued
C26_Witness ==
    /\ lastLog = "batch_ok"
    /\ RunsInFlight = {}
    /\ publishQueue = <<PathB>>

====
